---- MODULE Spec2Model ----
(***************************************************************************)
(* Model of demo/src/bin/perf_grouping.rs: the RollingAvg<N> accumulator,  *)
(* the make_points generator and the per-frame PerfApp::update callback.   *)
(*                                                                         *)
(* Durations (f64 milliseconds) are modelled as small naturals and the     *)
(* value of mean() as the exact fraction [sum, n] it divides.  The rand    *)
(* crate's StdRng is modelled as a deterministic generator whose state is  *)
(* a function of the seed and the number of draws.                         *)
(***************************************************************************)
EXTENDS Integers, Sequences, FiniteSets, TLC

(* ------------------------------ bounds -------------------------------- *)
\* capacity of the accumulator (RollingAvg<120> in PerfApp, scaled down)
N == 3
\* largest measured duration, in model milliseconds
MaxSample == 2
\* pushes allowed between two resets before the model stops starting frames;
\* kept below UsizeMax, so that update cycles never overflow the cursor
MaxPushes == 5
\* usize::MAX, the largest value of the write cursor (2^64 - 1 or 2^32 - 1 in
\* a build, scaled down; like 2^64 and 2^32, UsizeMax + 1 is no multiple of N)
UsizeMax == 7
\* size of the dataset built by PerfApp (2_000 in the source, scaled down)
PointCount == 2
\* largest count given to make_points when it is exercised on its own
MaxCount == 12

Samples == 0..MaxSample

VARIABLES
    avg,          \* PerfApp.avg : RollingAvg<N> = [buf, i, n]
    use_grouped,  \* PerfApp.use_grouped
    points,       \* PerfApp.points : Option<Vec<..>>, <<>> = None, <<v>> = Some(v)
    pc,           \* position inside PerfApp::update, "idle" between frames
    frame,        \* inputs read, locals and effects of the current update cycle
    hist,         \* history: samples pushed since new() or the last reset()
    stamp,        \* history: per slot, ordinal of the push that wrote it (0 = none)
    fresh,        \* history: an accumulator built by new() at each reset()
    frame_no,     \* history: 0 before the first update, 1 during/after it, 2 later
    mp,           \* a make_points(n) call in progress: [n, i, rng, out, done]
    results,      \* history: [n, out, grouped] of every make_points call that returned
    streak,       \* history: path that measured the latest sample, and how many of
                  \*          the latest samples it measured in a row (counted up to N)
    start         \* history: what the accumulator held when the current cycle
                  \*          began, and whether Space was pressed in the one before

vars == <<avg, use_grouped, points, pc, frame, hist, stamp, fresh, frame_no, mp,
          results, streak, start>>

Min(a, b) == IF a < b THEN a ELSE b
Max(a, b) == IF a > b THEN a ELSE b

(* ----------------------------- RollingAvg ------------------------------ *)
\* RollingAvg::new
New == [buf |-> [j \in 0..(N-1) |-> 0], i |-> 0, n |-> 0]

\* RollingAvg::reset without the buf.fill(0.0)
reset_nofill(a) == [a EXCEPT !.i = 0, !.n = 0]

\* RollingAvg::reset leaving the write cursor where it is
reset_keepcursor(a) == [a EXCEPT !.n = 0, !.buf = [j \in DOMAIN a.buf |-> 0]]

\* RollingAvg::reset
reset(a) == [a EXCEPT !.i = 0, !.n = 0, !.buf = [j \in DOMAIN a.buf |-> 0]]

\* the slot index taken from the count of valid samples instead of the cursor
push_slot_count(a) == a.n % N

\* the slot index taken after the cursor is advanced
push_slot_next(a) == (a.i + 1) % N

\* the slot push_ms writes: self.i % N
push_slot(a) == a.i % N

\* `self.i += 1` overflows in this call: a build with overflow checks panics
\* there, a build without them wraps the cursor to 0
push_overflows(a) == a.i = UsizeMax

\* RollingAvg::push_ms, the cursor wrapping at the width of usize
push_ms(a, v) ==
    [buf |-> [a.buf EXCEPT ![push_slot(a)] = v],
     i   |-> (a.i + 1) % (UsizeMax + 1),
     n   |-> Min(a.n + 1, N)]

\* sum of buf[..n]
RECURSIVE SumPrefix(_, _)
SumPrefix(buf, n) == IF n = 0 THEN 0 ELSE buf[n-1] + SumPrefix(buf, n-1)

\* RollingAvg::mean, the fraction sum / n it returns
mean(a) ==
    LET n == Max(a.n, 1)
    IN  [sum |-> SumPrefix(a.buf, n), n |-> n]

(* ----------------------------- make_points ----------------------------- *)
\* the fixed seed given to StdRng::seed_from_u64
Seed == 42

\* StdRng::seed_from_u64: the generator state is a function of the seed alone
seed_from_u64(seed) == seed % 16

\* one draw of the generator: the next state is a function of the state alone
rng_next(s) == (s * 5 + 3) % 16

\* Rng::gen_range(lo..hi) on the drawn state: a value in the half-open range
gen_range(s, lo, hi) == lo + (s % (hi - lo))

DigitChars == <<"0", "1", "2", "3", "4", "5", "6", "7", "8", "9">>

\* Display of a usize: its decimal digits, most significant first
RECURSIVE Decimal(_)
Decimal(i) ==
    IF i < 10 THEN <<DigitChars[i + 1]>>
    ELSE Decimal(i \div 10) \o <<DigitChars[(i % 10) + 1]>>

\* a label keeping only the last digit of the index
format_label_lastdigit(i) == <<"P">> \o Decimal(i % 10)

\* format!("P{i}")
format_label(i) == <<"P">> \o Decimal(i)

\* one run of the closure of (0..n).map(..): two draws, one LabeledSymbol.
\* Coordinates are in hundredths of a degree.
MakePointStep(st) ==
    LET r1  == rng_next(st.rng)
        lon == gen_range(r1, 225, 245)
        r2  == rng_next(r1)
        lat == gen_range(r2, 4880, 4892)
    IN  [st EXCEPT !.rng = r2,
                   !.i   = st.i + 1,
                   !.out = Append(st.out,
                               [position    |-> <<lon, lat>>,
                                label       |-> format_label(st.i),
                                symbol      |-> "Circle",
                                symbol_size |-> 5])]

\* the state of a make_points(n) call before the first iteration
MakePointsStart(n) ==
    [n |-> n, i |-> 0, rng |-> seed_from_u64(Seed), out |-> <<>>, done |-> FALSE]

RECURSIVE MakePointsRun(_)
MakePointsRun(st) == IF st.i < st.n THEN MakePointsRun(MakePointStep(st)) ELSE st

\* make_points(n): the collected Vec
make_points(n) == MakePointsRun(MakePointsStart(n)).out

(* ------------------------------- PerfApp ------------------------------- *)
\* the delay given to request_repaint_after, in milliseconds
RepaintDelayMs == 16

ZeroStamp == [j \in 0..(N-1) |-> 0]

\* the frame record at the start of an update cycle
FrameStart ==
    [click |-> "none", space |-> FALSE, alt |-> FALSE,
     points |-> <<>>, rendered |-> <<>>, pushed |-> <<>>,
     label |-> <<>>, shown |-> <<>>, requests |-> <<>>]

\* a dataset initialisation that never fills the Option
InitDataset_never(p) == p

\* "Initialize dataset once": if self.points.is_none() { .. = Some(make_points(2_000)) }
InitDataset(p) == IF p = <<>> THEN <<make_points(PointCount)>> ELSE p

\* self.points.as_ref().unwrap().clone(), <<>> standing for the panic of unwrap
ClonePoints(p) == IF p = <<>> THEN <<>> ELSE p[1]

\* the rendering branches exchanged
RenderPath_swapped(g) == IF g THEN "Places" ELSE "GroupedPlaces"

\* the branch of `if self.use_grouped { make_grouped_plugin } else { make_places_plugin }`
RenderPath(g) == IF g THEN "GroupedPlaces" ELSE "Places"

\* a Space handler that switches to the grouped mode instead of flipping
SpaceMode_set(g, pressed) == IF pressed THEN TRUE ELSE g

\* if key_pressed(Space) { self.use_grouped = !self.use_grouped; .. }
SpaceMode(g, pressed) == IF pressed THEN ~g ELSE g

\* ui.toggle_value(&mut self.use_grouped, ..): a click flips the flag
ToggleValue(g, clicked) == IF clicked THEN ~g ELSE g

\* the overlay label naming the other mode
OverlayLabel_swapped(g) == IF g THEN "Places" ELSE "GroupedPlaces"

\* the overlay label
OverlayLabel(g) == IF g THEN "GroupedPlaces" ELSE "Places"

\* a repaint policy that always throttles
RepaintRequest_throttled(alt) == [call |-> "request_repaint_after", ms |-> RepaintDelayMs]

\* if alt { ctx.request_repaint() } else { ctx.request_repaint_after(16 ms) }
RepaintRequest(alt) ==
    IF alt THEN [call |-> "request_repaint", ms |-> 0]
    ELSE [call |-> "request_repaint_after", ms |-> RepaintDelayMs]

\* no sample is held
NoStreak == [path |-> "none", run |-> 0]

\* one more sample, measured by the rendering path `path`
Measured(sk, path) ==
    IF sk.path = path THEN [sk EXCEPT !.run = Min(sk.run + 1, N)]
    ELSE [path |-> path, run |-> 1]

\* the samples held, oldest first: the slots written since the last reset,
\* in the order of the pushes that wrote them
Held(buf, st) ==
    LET W == {j \in DOMAIN buf : st[j] > 0}
    IN  [k \in 1..Cardinality(W) |->
            buf[CHOOSE j \in W : Cardinality({m \in W : st[m] < st[j]}) = k - 1]]

\* a top bar in which the toggle control resets the average too
TopBarResets_any(click) == click # "none"

\* if ui.button("Reset avg").clicked() { self.avg.reset() }
TopBarResets(click) == click = "reset"

\* self.avg.reset(), with the history variables
DoReset ==
    /\ avg' = reset(avg)
    /\ hist' = <<>>
    /\ stamp' = ZeroStamp
    /\ fresh' = New
    /\ streak' = NoStreak

\* self.avg.push_ms(v), with the history variables
DoPush(v) ==
    /\ avg' = push_ms(avg, v)
    /\ hist' = Append(hist, v)
    /\ stamp' = [stamp EXCEPT ![push_slot(avg)] = Len(hist) + 1]
    /\ fresh' = push_ms(fresh, v)

\* the record kept of a make_points(n) call that returned out
Returned(n, out, grouped) == [n |-> n, out |-> out, grouped |-> grouped]

AppInit ==
    /\ avg = New
    /\ use_grouped = FALSE
    /\ points = <<>>
    /\ pc = "idle"
    /\ frame = FrameStart
    /\ hist = <<>>
    /\ stamp = ZeroStamp
    /\ fresh = New
    /\ frame_no = 0
    /\ results = {}
    /\ streak = NoStreak
    /\ start = [n |-> 0, held |-> <<>>, after_space |-> FALSE]

Init ==
    /\ AppInit
    /\ mp = MakePointsStart(0)

\* update, lines 104-108: the event loop starts a cycle; the dataset is built once
Update_Dataset ==
    /\ pc = "idle"
    /\ avg.i < MaxPushes
    /\ points' = InitDataset(points)
    /\ frame' = [FrameStart EXCEPT !.points = ClonePoints(points')]
    /\ frame_no' = Min(frame_no + 1, 2)
    /\ pc' = "topbar"
    /\ results' = IF points = <<>>
                   THEN results \cup {Returned(PointCount, ClonePoints(points'), use_grouped)}
                   ELSE results
    /\ start' = [n |-> avg.n, held |-> Held(avg.buf, stamp), after_space |-> frame.space]
    /\ UNCHANGED <<avg, use_grouped, hist, stamp, fresh, mp, streak>>

\* update, lines 111-120: the toggle control and the "Reset avg" button
Update_TopBar ==
    /\ pc = "topbar"
    /\ \E click \in {"none", "toggle", "reset"} :
          /\ frame' = [frame EXCEPT !.click = click]
          /\ use_grouped' = ToggleValue(use_grouped, click = "toggle")
          /\ IF TopBarResets(click) THEN DoReset
             ELSE UNCHANGED <<avg, hist, stamp, fresh, streak>>
    /\ pc' = "central"
    /\ UNCHANGED <<points, frame_no, mp, results, start>>

\* update, lines 127-136: build one plugin, add the map, time it, push the sample
Update_Render ==
    /\ pc = "central"
    /\ \E dt_ms \in Samples :
          /\ frame' = [frame EXCEPT
                          !.rendered = Append(@, [path   |-> RenderPath(use_grouped),
                                                  points |-> frame.points,
                                                  dt_ms  |-> dt_ms]),
                          !.pushed   = Append(@, dt_ms)]
          /\ DoPush(dt_ms)
    /\ streak' = Measured(streak, RenderPath(use_grouped))
    /\ pc' = "overlay"
    /\ UNCHANGED <<use_grouped, points, frame_no, mp, results, start>>

\* update, lines 139-148: the label and the current mean painted over the map
Update_Overlay ==
    /\ pc = "overlay"
    /\ frame' = [frame EXCEPT !.label = Append(@, OverlayLabel(use_grouped)),
                              !.shown = Append(@, mean(avg))]
    /\ pc' = "keys"
    /\ UNCHANGED <<avg, use_grouped, points, hist, stamp, fresh, frame_no, mp, results, streak, start>>

\* update, lines 152-155: Space flips the mode and resets the average
Update_SpaceKey ==
    /\ pc = "keys"
    /\ \E space \in BOOLEAN :
          /\ frame' = [frame EXCEPT !.space = space]
          /\ use_grouped' = SpaceMode(use_grouped, space)
          /\ IF space THEN DoReset ELSE UNCHANGED <<avg, hist, stamp, fresh, streak>>
    /\ pc' = "repaint"
    /\ UNCHANGED <<points, frame_no, mp, results, start>>

\* update, lines 156-160: the next frame is requested; the cycle returns
Update_Repaint ==
    /\ pc = "repaint"
    /\ \E alt \in BOOLEAN :
          frame' = [frame EXCEPT !.alt = alt,
                                 !.requests = Append(@, RepaintRequest(alt))]
    /\ pc' = "idle"
    /\ UNCHANGED <<avg, use_grouped, points, hist, stamp, fresh, frame_no, mp, results, streak, start>>

Next ==
    \/ Update_Dataset
    \/ Update_TopBar
    \/ Update_Render
    \/ Update_Overlay
    \/ Update_SpaceKey
    \/ Update_Repaint

Spec == Init /\ [][Next]_vars

\* the event loop runs every cycle it has started to its end
FairSpec == Spec /\ WF_vars(Next)

(* ------------------------ make_points on its own ----------------------- *)
PointsInit ==
    /\ AppInit
    /\ \E n \in 0..MaxCount : mp = MakePointsStart(n)

\* one iteration of (0..n).map(|i| ..)
MakePoints_Map ==
    /\ ~mp.done
    /\ mp.i < mp.n
    /\ mp' = MakePointStep(mp)
    /\ UNCHANGED <<avg, use_grouped, points, pc, frame, hist, stamp, fresh, frame_no,
                   results, streak, start>>

\* .collect(): the range is exhausted and the Vec is returned
MakePoints_Collect ==
    /\ ~mp.done
    /\ mp.i = mp.n
    /\ mp' = [mp EXCEPT !.done = TRUE]
    /\ results' = results \cup {Returned(mp.n, mp.out, use_grouped)}
    /\ UNCHANGED <<avg, use_grouped, points, pc, frame, hist, stamp, fresh, frame_no,
                   streak, start>>

PointsNext == MakePoints_Map \/ MakePoints_Collect

SpecPoints == PointsInit /\ [][PointsNext]_vars

(* ------------------- make_points invoked repeatedly -------------------- *)
\* a call whose generator goes on from where the previous call left it
CallStart_sharedrng(prev, n) == [MakePointsStart(n) EXCEPT !.rng = prev.rng]

\* the locals of a new call: `let mut rng = StdRng::seed_from_u64(42)` and
\* the range (0..n) are built from the argument; nothing of the previous
\* call prev is kept
CallStart(prev, n) == MakePointsStart(n)

\* make_points(n) is invoked again, between two update cycles, after an
\* earlier call has returned
MakePoints_Call ==
    /\ mp.done
    /\ pc = "idle"
    /\ Cardinality(results) < 3
    /\ \E n \in 0..MaxCount : mp' = CallStart(mp, n)
    /\ UNCHANGED <<avg, use_grouped, points, pc, frame, hist, stamp, fresh, frame_no,
                   results, streak, start>>

\* the application's first update cycle, which may flip the mode; the program
\* is single-threaded, so it runs only while no make_points call is under way
Calls_FirstCycle == mp.done /\ (frame_no = 0 \/ pc # "idle") /\ Next

CallsNext ==
    \/ MakePoints_Map
    \/ MakePoints_Collect
    \/ MakePoints_Call
    \/ Calls_FirstCycle

SpecCalls == PointsInit /\ [][CallsNext]_vars

(* ----------------- RollingAvg under long push sequences ---------------- *)
\* push_ms(v) returns: every call below the overflow, and the overflowing
\* call in a build without overflow checks
Long_Push ==
    /\ pc = "idle"
    /\ Len(hist) <= UsizeMax
    /\ \E v \in Samples : DoPush(v)
    /\ UNCHANGED <<use_grouped, points, pc, frame, frame_no, mp, results, streak, start>>

\* push_ms(v) panics at `self.i += 1` in a build with overflow checks, after
\* the slot was written
Long_PushPanics ==
    /\ pc = "idle"
    /\ push_overflows(avg)
    /\ \E v \in Samples :
          /\ avg' = [avg EXCEPT !.buf[push_slot(avg)] = v]
          /\ hist' = Append(hist, v)
          /\ stamp' = [stamp EXCEPT ![push_slot(avg)] = Len(hist) + 1]
    /\ pc' = "panicked"
    /\ UNCHANGED <<use_grouped, points, frame, fresh, frame_no, mp, results, streak, start>>

\* reset()
Long_Reset ==
    /\ pc = "idle"
    /\ DoReset
    /\ UNCHANGED <<use_grouped, points, pc, frame, frame_no, mp, results, start>>

LongNext == Long_Push \/ Long_PushPanics \/ Long_Reset

SpecLong == Init /\ [][LongNext]_vars

(* =============================== claims ================================ *)
\* the last k elements of a sequence
LastK(s, k) == SubSeq(s, Len(s) - k + 1, Len(s))

RECURSIVE SumSeq(_)
SumSeq(s) == IF s = <<>> THEN 0 ELSE Head(s) + SumSeq(Tail(s))

Slots == 0..(N-1)

\* the update cycle has returned at least once and no new one has begun
CycleEnded == pc = "idle" /\ frame_no > 0

\* the state right after a call of self.avg.reset()
PostReset ==
    \/ pc = "central" /\ frame.click = "reset"
    \/ pc = "repaint" /\ frame.space

\* C1: every flip of use_grouped, by the Space key or by the toggle control,
\* leaves the rolling average empty: right after the flip the count of valid
\* samples is 0 and mean() is the fresh-state value 0.
C1_EveryFlipResets ==
    [][use_grouped' # use_grouped
         => avg'.n = 0 /\ mean(avg') = [sum |-> 0, n |-> 1]]_vars

\* C2: after k >= 1 pushes since construction or the last reset, mean() is
\* the arithmetic mean of exactly the last min(k, N) pushed samples.
C2_MeanOfLastSamples ==
    Len(hist) >= 1 =>
        LET k == Min(Len(hist), N)
        IN  mean(avg) = [sum |-> SumSeq(LastK(hist, k)), n |-> k]

\* more than N samples were pushed and the evicted one differs from the last
C2_Witness ==
    /\ Len(hist) > N
    /\ hist[Len(hist) - N] = MaxSample
    /\ hist[Len(hist)] = 0
    /\ avg.n = N

\* C3: a push on a full accumulator overwrites exactly the slot holding the
\* oldest sample still held and leaves the other N-1 slots unchanged; a push
\* before capacity is reached overwrites no previously pushed sample.
C3_PushOverwritesOldest ==
    [][Len(hist') = Len(hist) + 1 =>
          LET written == {j \in Slots : stamp'[j] # stamp[j]}
          IN  /\ Cardinality(written) = 1
              /\ \A j \in Slots \ written : avg'.buf[j] = avg.buf[j]
              /\ \A s \in written :
                    /\ avg'.buf[s] = hist'[Len(hist')]
                    /\ IF avg.n = N
                       THEN \A j \in Slots : stamp[s] <= stamp[j]
                       ELSE stamp[s] = 0]_vars

\* a push has just overwritten a sample of a full accumulator
C3_Witness == Len(hist) = N + 2 /\ pc = "overlay" /\ avg.n = N

\* C4: after reset(), whatever was pushed before, buffer, cursor and count are
\* those of new(), a second reset() changes nothing, and from then on mean()
\* is what it is on an accumulator built by new() and given the same pushes.
C4_ResetIsNew ==
    /\ PostReset => avg = New /\ reset(avg) = avg
    /\ mean(avg) = mean(fresh)

\* a reset by the Space key in a later cycle, after samples were pushed
C4_Witness == pc = "repaint" /\ frame.space /\ frame_no = 2 /\ frame.pushed # <<>>

\* C5: whenever the accumulator holds no sample, mean() is exactly 0: it
\* divides by max(count, 1) = 1 and the one slot it reads holds 0; the
\* divisor is never 0.
C5_EmptyMeanIsZero ==
    /\ mean(avg).n >= 1
    /\ avg.n = 0 => mean(avg) = [sum |-> 0, n |-> 1] /\ avg.buf[0] = 0

\* empty again after a reset that followed a push of a nonzero sample
C5_Witness == avg.n = 0 /\ PostReset /\ frame.pushed = <<MaxSample>>

\* C6: the mode is one of two values and starts ungrouped; an update cycle in
\* which Space is pressed ends with the flag flipped relative to its value at
\* the key check and with the average empty (count 0, cursor 0, no sample
\* left), the sample pushed earlier in that cycle being discarded.
C6_SpaceFlipsAndResets ==
    /\ use_grouped = FALSE
    /\ [](use_grouped \in BOOLEAN)
    /\ [][/\ (pc = "keys" /\ frame'.space) => use_grouped' = ~use_grouped
          /\ pc = "repaint" => (use_grouped' = use_grouped /\ avg' = avg)]_vars
    /\ []((CycleEnded /\ frame.space) =>
              /\ Len(frame.pushed) = 1
              /\ avg.n = 0 /\ avg.i = 0
              /\ \A j \in Slots : avg.buf[j] = 0)

\* a cycle in which Space was pressed has ended in grouped mode after a
\* nonzero sample was pushed in it
C6_Witness ==
    CycleEnded /\ frame.space /\ use_grouped /\ frame.pushed = <<MaxSample>>

\* C7: the point set is generated in the first update cycle and in no later
\* one; once it is Some nothing replaces or changes it, and every plugin of
\* every frame, in either mode, is built from a copy equal to it.
C7_PointsGeneratedOnce ==
    /\ [](points = <<>> <=> frame_no = 0)
    /\ [][points # <<>> => points' = points]_vars
    /\ [](\A k \in 1..Len(frame.rendered) : <<frame.rendered[k].points>> = points)

\* a later frame has rendered in grouped mode
C7_Witness ==
    /\ frame_no = 2
    /\ Len(frame.rendered) = 1
    /\ frame.rendered[1].path = "GroupedPlaces"
    /\ frame.rendered[1].points # <<>>

\* C8: every update cycle invokes exactly one rendering path, the grouped one
\* iff use_grouped holds when it renders, and pushes exactly one sample, the
\* duration of that invocation.
C8_OnePathOneSample ==
    /\ pc \in {"topbar", "central"} => frame.rendered = <<>> /\ frame.pushed = <<>>
    /\ (pc \in {"overlay", "keys", "repaint"} \/ CycleEnded) =>
          /\ Len(frame.rendered) = 1
          /\ frame.rendered[1].path \in {"GroupedPlaces", "Places"}
          /\ frame.pushed = <<frame.rendered[1].dt_ms>>
    /\ pc \in {"overlay", "keys"} =>
          /\ frame.rendered[1].path = "GroupedPlaces" <=> use_grouped
          /\ hist # <<>>
          /\ hist[Len(hist)] = frame.pushed[1]

\* a later cycle has ended after rendering the grouped path
C8_Witness ==
    CycleEnded /\ frame_no = 2 /\ frame.rendered[1].path = "GroupedPlaces"

\* C9: every update cycle ends having requested exactly one next frame: an
\* immediate repaint iff Alt is held, otherwise a repaint after 16 ms; and
\* every cycle that has begun reaches that end, so a next frame is always
\* eventually scheduled.
C9_OneRepaintRequest ==
    /\ [](pc # "idle" => frame.requests = <<>>)
    /\ [](CycleEnded =>
             /\ Len(frame.requests) = 1
             /\ frame.requests[1].call = "request_repaint" <=> frame.alt
             /\ ~frame.alt =>
                   frame.requests[1] = [call |-> "request_repaint_after", ms |-> 16])
    /\ (pc # "idle") ~> (CycleEnded /\ Len(frame.requests) = 1)

\* a cycle has ended with Alt held
C9_Witness == CycleEnded /\ frame.alt /\ frame.requests # <<>>

\* the value of a decimal digit character
DigitValue(c) == CHOOSE d \in 0..9 : DigitChars[d + 1] = c

\* the number a sequence of decimal digits denotes
RECURSIVE ParseDecimal(_)
ParseDecimal(ds) ==
    IF Len(ds) = 1 THEN DigitValue(ds[1])
    ELSE 10 * ParseDecimal(SubSeq(ds, 1, Len(ds) - 1)) + DigitValue(ds[Len(ds)])

\* C10: make_points(n) returns exactly n points; the label of the point at
\* index k is "P" followed by the decimal digits of k, for k = 0..n-1 in
\* order, so the labels are pairwise distinct; for n = 0 the list is empty.
C10_PointsLabelled ==
    mp.done =>
        /\ Len(mp.out) = mp.n
        /\ mp.out = make_points(mp.n)
        /\ mp.n = 0 => mp.out = <<>>
        /\ \A k \in 1..Len(mp.out) :
              LET l == mp.out[k].label
              IN  /\ Len(l) >= 2
                  /\ l[1] = "P"
                  /\ \A d \in 2..Len(l) : \E c \in 1..10 : DigitChars[c] = l[d]
                  /\ (Len(l) > 2 => l[2] # "0")
                  /\ ParseDecimal(Tail(l)) = k - 1
        /\ \A j, k \in 1..Len(mp.out) : j # k => mp.out[j].label # mp.out[k].label

\* a call with more than ten points, so two-digit labels, has returned
C10_Witness == mp.done /\ mp.n >= 11 /\ Len(mp.out) >= 11

\* C11: make_points is deterministic: any two invocations with the same count
\* return identical coordinate and label sequences, whatever the application
\* state and the mode flag at the time and whatever was invoked before.
C11_SameCountSamePoints ==
    \A a, b \in results : a.n = b.n => a.out = b.out

\* the same nonzero count was given in both modes, after another call
C11_Witness ==
    \E a, b \in results :
        /\ a.n = b.n /\ a.n >= 2
        /\ a.grouped /\ ~b.grouped
        /\ Cardinality(results) = 3

\* C12: wherever the overlay average is computed, every sample counted in it
\* was measured while rendering in the mode that is current there.
C12_SamplesFromCurrentMode ==
    pc = "keys" =>
        /\ streak.path = (IF use_grouped THEN "GroupedPlaces" ELSE "Places")
        /\ streak.run >= avg.n

\* C13: the average is emptied only by a click on "Reset avg" or a Space
\* press; a cycle with neither ends with count min(count before + 1, N) and
\* holding what it held before, less the evicted oldest sample when it was
\* full, plus the sample of the cycle.
C13_OnlyResetOrSpaceEmpties ==
    /\ [][avg'.n < avg.n =>
             \/ pc = "topbar" /\ frame'.click = "reset"
             \/ pc = "keys" /\ frame'.space]_vars
    /\ []((CycleEnded /\ frame.click # "reset" /\ ~frame.space) =>
             /\ avg.n = Min(start.n + 1, N)
             /\ Held(avg.buf, stamp) =
                    (IF start.n = N THEN Tail(start.held) ELSE start.held)
                        \o frame.pushed)

\* a cycle with a click on the toggle control and no Space has ended, on an
\* accumulator that was full and whose oldest sample was not 0
C13_Witness ==
    /\ CycleEnded /\ frame.click = "toggle" /\ ~frame.space
    /\ start.n = N /\ start.held[1] = MaxSample /\ frame.pushed = <<0>>

\* C14: push_ms never fails, however often it is called without a reset: the
\* cursor is incremented by one and stays in the range of its machine word,
\* and the slot written advances by one modulo N from each push to the next.
C14_CursorNeverOverflows ==
    [][Len(hist') = Len(hist) + 1 =>
          /\ pc' # "panicked"
          /\ avg'.i = avg.i + 1
          /\ avg'.i % N = ((avg.i % N) + 1) % N]_vars

\* C15: the mode named in the overlay label of a cycle is the rendering path
\* invoked and measured in that cycle, also when the mode is toggled in it by
\* the top-bar control or by Space.
C15_LabelNamesRenderedPath ==
    /\ pc \in {"topbar", "central", "overlay"} => frame.label = <<>>
    /\ (pc \in {"keys", "repaint"} \/ CycleEnded) =>
          /\ Len(frame.rendered) = 1
          /\ frame.label = <<frame.rendered[1].path>>

\* a cycle has ended in which both the control and Space toggled the mode
C15_Witness ==
    /\ CycleEnded /\ frame.click = "toggle" /\ frame.space
    /\ frame.label = <<"GroupedPlaces">>

\* C16: when the overlay average is computed the accumulator holds at least
\* one sample, so the divisor shown is the count and not the floor of an empty
\* accumulator; in a cycle with a click on "Reset avg", and in the cycle after
\* a Space press, the average shown is that cycle's own sample alone.
C16_OverlayAfterPush ==
    /\ pc = "keys" =>
          /\ avg.n >= 1
          /\ Len(frame.shown) = 1
          /\ frame.shown[1].n = avg.n
    /\ ((pc \in {"keys", "repaint"} \/ CycleEnded)
            /\ (frame.click = "reset" \/ start.after_space)) =>
          frame.shown = <<[sum |-> frame.pushed[1], n |-> 1]>>

\* the cycle after a Space press has shown its own nonzero sample
C16_Witness ==
    /\ CycleEnded /\ start.after_space /\ frame.click = "none"
    /\ frame.shown = <<[sum |-> MaxSample, n |-> 1]>>

\* C17: with i the write cursor, n = min(i, N) and 0 <= n <= N; while n < N
\* every slot at an index >= n holds 0; the slots 0..n-1 are exactly the
\* slots written since the last reset.
C17_PrefixHoldsSamples ==
    /\ avg.n = Min(avg.i, N)
    /\ 0 <= avg.n /\ avg.n <= N
    /\ avg.n < N => \A j \in Slots : j >= avg.n => avg.buf[j] = 0
    /\ \A j \in Slots : j < avg.n <=> stamp[j] > 0

\* two nonzero samples are held below capacity
C17_Witness ==
    /\ avg.n = 2 /\ avg.i = 2
    /\ avg.buf[0] = MaxSample /\ avg.buf[1] = MaxSample

====
